---- MODULE Spec2Model ----
(***************************************************************************)
(* Model of the Mongo implementation of the StoreClient interface          *)
(* (internal/store/db/mongo/store.go): the five collection operations of   *)
(* Client and the NewClient bootstrap, in which a goroutine that connects  *)
(* and pings races the deadline of a context.                              *)
(*                                                                         *)
(* Strings that identify objects are modelled as sequences of segments:    *)
(* "" is << >>, the hex form of an ObjectID o is <<o>>, and the composite  *)
(* of an ObjectID o and a correlation UUID u is <<o, u>>.  The zero        *)
(* ObjectID (primitive.NilObjectID) is 0 and the empty UUID string is 0.   *)
(***************************************************************************)
EXTENDS Integers, Sequences, FiniteSets, TLC

\* ---- bounds ------------------------------------------------------------
\* ObjectIDs are 1..MaxOid: the collection holds at most MaxOid documents.
MaxOid == 2
\* config.Timeout ranges over 0..MaxTimeout milliseconds.
MaxTimeout == 2

\* ---- values ------------------------------------------------------------
NilObjectID == 0
NoUuid == ""
NoErr == "nil"

Oids == 1..MaxOid
Uuids == {"u1"}
Keys == {"svcA", "svcB"}
Payloads == {"p1", "p2"}
Counts == {0, 3}

\* The callers that use the Client at the same time.
Callers == {"c1", "c2"}

\* An identifier string that no decoding accepts.
BadId == <<0, 0, 0>>

\* The identifier strings callers pass.
IdStrings ==
  {<< >>} \cup {<<o>> : o \in Oids}
          \cup {<<o, u>> : o \in {NilObjectID} \cup Oids, u \in Uuids}
          \cup {BadId}

\* contracts.StoredObject as the callers build it.  PipelinePosition,
\* Version, CorrelationID, EventID and EventChecksum are copied verbatim by
\* every operation; they are carried as the single field Version.  Callers
\* pass two kinds of object, (svcA, p1, 0) and (svcB, p2, 3), under every
\* identifier; UpdateRetryCount mixes the retry counts.
ContractObjects ==
  {[ID |-> id, AppServiceKey |-> b[1], Payload |-> b[2], RetryCount |-> b[3],
    Version |-> "v1"] : id \in IdStrings, b \in {<<"svcA", "p1", 0>>, <<"svcB", "p2", 3>>}}

\* ---- Identifier codec (models package) ----------------------------------
\* primitive.ObjectID.Hex
Hex(oid) == <<oid>>

ToContractId(oid, uuid) ==
  IF uuid = NoUuid
    THEN (IF oid = NilObjectID THEN << >> ELSE Hex(oid))
    ELSE <<oid, uuid>>

FromContractId(id) ==
  IF id = << >>
    THEN [objID |-> NilObjectID, uuid |-> NoUuid, err |-> NoErr]
  ELSE IF Len(id) = 1 /\ id[1] \in Oids
    THEN [objID |-> id[1], uuid |-> NoUuid, err |-> NoErr]
  ELSE IF Len(id) = 2 /\ id[1] \in ({NilObjectID} \cup Oids) /\ id[2] \in Uuids
    THEN [objID |-> id[1], uuid |-> id[2], err |-> NoErr]
  ELSE [objID |-> NilObjectID, uuid |-> NoUuid, err |-> "MalformedIdentifier"]

\* ---- Document mapper (models package) -----------------------------------
\* models.StoredObject.ToContract
ToContract(m) ==
  [ID |-> ToContractId(m.oid, m.uuid), AppServiceKey |-> m.appServiceKey,
   Payload |-> m.payload, RetryCount |-> m.retryCount, Version |-> m.version]

\* models.StoredObject.FromContract: the model built from o, and the error.
FromContract(o) ==
  LET d == FromContractId(o.ID)
  IN [err |-> d.err,
      model |-> [oid |-> d.objID, uuid |-> d.uuid,
                 appServiceKey |-> o.AppServiceKey, payload |-> o.Payload,
                 retryCount |-> o.RetryCount, version |-> o.Version]]

\* The zero value models.StoredObject{}.
EmptyModel ==
  [oid |-> NilObjectID, uuid |-> NoUuid, appServiceKey |-> "", payload |-> "",
   retryCount |-> 0, version |-> ""]

\* ---- Backing store (mongo driver calls on the "store" collection) -------
\* The collection is the sequence of its documents in natural order.
mongoCollection == "store"

\* The least index of the set S of indices, 0 when S is empty.
FirstIndex(S) == IF S = {} THEN 0 ELSE CHOOSE i \in S : \A j \in S : i <= j

\* Index of the first document with the given _id (uuid), 0 when none.
IndexOfOid(coll, oid) == FirstIndex({i \in 1..Len(coll) : coll[i].oid = oid})
IndexOfUuid(coll, uuid) == FirstIndex({i \in 1..Len(coll) : coll[i].uuid = uuid})

RemoveAt(coll, i) ==
  [j \in 1..(Len(coll) - 1) |-> IF j < i THEN coll[j] ELSE coll[j + 1]]

OidsOf(coll) == {coll[i].oid : i \in 1..Len(coll)}

\* The ObjectID the driver generates for a document inserted without _id.
\* ObjectIDs are unique: the driver hands out next, which no document has
\* carried, and then moves on.
NewObjectID(next) == next

\* Collection.FindOne(filter {uuid: uuid}).Decode(&m): m is left at its zero value when
\* the call fails or no document matches.
FindOne(coll, uuid, fails) ==
  LET i == IndexOfUuid(coll, uuid)
  IN IF fails \/ i = 0 THEN EmptyModel ELSE coll[i]

\* An InsertOne into a collection without the unique index on _id.
InsertOne_NoUniqueIndex(coll, next, doc, fails) ==
  IF fails
    THEN [coll |-> coll, next |-> next, err |-> "StoreUnavailable", id |-> NilObjectID]
  ELSE IF doc.oid = NilObjectID
    THEN [coll |-> Append(coll, [doc EXCEPT !.oid = NewObjectID(next)]),
          next |-> next + 1, err |-> NoErr, id |-> NewObjectID(next)]
  ELSE [coll |-> Append(coll, doc), next |-> next, err |-> NoErr, id |-> doc.oid]

\* Collection.InsertOne(doc); doc.oid = NilObjectID stands for a document
\* without an _id field.
InsertOne(coll, next, doc, fails) ==
  IF fails
    THEN [coll |-> coll, next |-> next, err |-> "StoreUnavailable", id |-> NilObjectID]
  ELSE IF doc.oid # NilObjectID /\ doc.oid \in OidsOf(coll)
    THEN [coll |-> coll, next |-> next, err |-> "DuplicateKey", id |-> NilObjectID]
  ELSE IF doc.oid = NilObjectID
    THEN [coll |-> Append(coll, [doc EXCEPT !.oid = NewObjectID(next)]),
          next |-> next + 1, err |-> NoErr, id |-> NewObjectID(next)]
  ELSE [coll |-> Append(coll, doc), next |-> next, err |-> NoErr, id |-> doc.oid]

\* Collection.Find(filter {appServiceKey: key}): the cursor over the matching
\* documents.
Find(coll, key) == SelectSeq(coll, LAMBDA d : d.appServiceKey = key)

\* A ReplaceOne that keeps the payload of the document it replaces.
ReplaceOne_KeepPayload(coll, oid, replacement, fails) ==
  LET i == IndexOfOid(coll, oid)
  IN IF fails THEN [coll |-> coll, err |-> "StoreUnavailable", matched |-> 0]
     ELSE IF i = 0 THEN [coll |-> coll, err |-> NoErr, matched |-> 0]
     ELSE [coll |-> [coll EXCEPT ![i] = [replacement EXCEPT !.payload = coll[i].payload]],
           err |-> NoErr, matched |-> 1]

\* Collection.ReplaceOne(filter {_id: oid}, replacement): no upsert; matching
\* no document is not an error.
ReplaceOne(coll, oid, replacement, fails) ==
  LET i == IndexOfOid(coll, oid)
  IN IF fails THEN [coll |-> coll, err |-> "StoreUnavailable", matched |-> 0]
     ELSE IF i = 0 THEN [coll |-> coll, err |-> NoErr, matched |-> 0]
     ELSE [coll |-> [coll EXCEPT ![i] = replacement], err |-> NoErr, matched |-> 1]

\* A $set that also resets the payload.
SetRetryCount_AndPayload(doc, count) == [doc EXCEPT !.retryCount = count, !.payload = ""]

\* The update document {$set: {retryCount: count}} applied to doc.
SetRetryCount(doc, count) == [doc EXCEPT !.retryCount = count]

\* Collection.UpdateOne(filter {_id: oid}, {$set: {retryCount: count}})
UpdateOne(coll, oid, count, fails) ==
  LET i == IndexOfOid(coll, oid)
  IN IF fails THEN [coll |-> coll, err |-> "StoreUnavailable", matched |-> 0]
     ELSE IF i = 0 THEN [coll |-> coll, err |-> NoErr, matched |-> 0]
     ELSE [coll |-> [coll EXCEPT ![i] = SetRetryCount(coll[i], count)], err |-> NoErr,
           matched |-> 1]

\* Collection.DeleteOne(filter {_id: oid})
DeleteOne(coll, oid, fails) ==
  LET i == IndexOfOid(coll, oid)
  IN IF fails THEN [coll |-> coll, err |-> "StoreUnavailable", deleted |-> 0]
     ELSE IF i = 0 THEN [coll |-> coll, err |-> NoErr, deleted |-> 0]
     ELSE [coll |-> RemoveAt(coll, i), err |-> NoErr, deleted |-> 1]

\* ---- Client operations --------------------------------------------------
\* Every operation is a function of the collection, its arguments and the
\* set flt of backing-store calls that fail during it; the result carries
\* the new collection, the returned values and the store calls it made.

\* An existence test that never finds the object.
ObjectExists_Never(m) == FALSE

\* !reflect.DeepEqual(m, models.StoredObject{}): the lookup found an object.
ObjectExists(m) == m # EmptyModel

\* A test for the empty identifier that never fires.
MissingId_Never(id) == FALSE

\* o.ID == "", id == "": the guards of Update, UpdateRetryCount and
\* RemoveFromStore.
MissingId(id) == id = << >>

\* Client.Store
StoreOp(coll, next, o, flt) ==
  LET d == FromContractId(o.ID)
      doc == [oid |-> d.objID, uuid |-> d.uuid, appServiceKey |-> o.AppServiceKey,
              payload |-> o.Payload, retryCount |-> o.RetryCount, version |-> o.Version]
      m == FindOne(coll, d.uuid, "FindOne" \in flt)
      lookup == IF d.objID = NilObjectID THEN <<"FindOne">> ELSE << >>
      ins == InsertOne(coll, next, doc, "InsertOne" \in flt)
  IN IF d.err # NoErr
       THEN [coll |-> coll, next |-> next, err |-> d.err, ret |-> << >>, calls |-> << >>]
     ELSE IF d.objID = NilObjectID /\ ObjectExists(m)
       THEN [coll |-> coll, next |-> next, err |-> "DuplicateObject", ret |-> << >>,
             calls |-> lookup]
     ELSE IF ins.err # NoErr
       THEN [coll |-> coll, next |-> next, err |-> ins.err, ret |-> << >>,
             calls |-> lookup \o <<"InsertOne">>]
     ELSE [coll |-> ins.coll, next |-> ins.next, err |-> NoErr, ret |-> Hex(ins.id),
           calls |-> lookup \o <<"InsertOne">>]

RECURSIVE Iterate(_, _, _, _, _)
\* The cursor loop of RetrieveFromStore from document i on: the fault, if
\* any, strikes the at-th cursor.Next or the at-th cursor.Decode.
Iterate(cursor, i, modelSlice, fault, at) ==
  IF fault = "Next" /\ at = i THEN [err |-> "StoreUnavailable", objects |-> << >>]
  ELSE IF i > Len(cursor)
    THEN [err |-> NoErr,
          objects |-> [j \in 1..Len(modelSlice) |-> ToContract(modelSlice[j])]]
  ELSE IF fault = "Decode" /\ at = i THEN [err |-> "DecodeError", objects |-> << >>]
  ELSE Iterate(cursor, i + 1, Append(modelSlice, cursor[i]), fault, at)

\* RetrieveFromStore with a filter that matches every document.
RetrieveFromStore_NoFilter(coll, appServiceKey, fault, at) ==
  IF fault = "Find"
    THEN [err |-> "StoreUnavailable", objects |-> << >>, calls |-> <<"Find">>]
  ELSE LET r == Iterate(coll, 1, << >>, fault, at)
       IN [err |-> r.err, objects |-> r.objects, calls |-> <<"Find">>]

\* RetrieveFromStore that returns, with the error, the documents it read
\* before the failure.
RetrieveFromStore_Partial(coll, appServiceKey, fault, at) ==
  IF fault = "Find"
    THEN [err |-> "StoreUnavailable", objects |-> << >>, calls |-> <<"Find">>]
  ELSE LET cursor == Find(coll, appServiceKey)
           r == Iterate(cursor, 1, << >>, fault, at)
       IN IF r.err # NoErr
            THEN [err |-> r.err, objects |-> [j \in 1..(at - 1) |-> ToContract(cursor[j])],
                  calls |-> <<"Find">>]
            ELSE [err |-> r.err, objects |-> r.objects, calls |-> <<"Find">>]

\* Client.RetrieveFromStore
RetrieveFromStore(coll, appServiceKey, fault, at) ==
  IF fault = "Find"
    THEN [err |-> "StoreUnavailable", objects |-> << >>, calls |-> <<"Find">>]
  ELSE LET r == Iterate(Find(coll, appServiceKey), 1, << >>, fault, at)
       IN [err |-> r.err, objects |-> r.objects, calls |-> <<"Find">>]

\* An Update that writes the payload on its own before the replace, so that
\* a failed replace leaves the new payload behind.
UpdateOp_PayloadFirst(coll, o, flt) ==
  LET f == FromContract(o)
      i == IndexOfOid(coll, f.model.oid)
      r == ReplaceOne(coll, f.model.oid, f.model, "ReplaceOne" \in flt)
  IN IF MissingId(o.ID)
       THEN [coll |-> coll, err |-> "MissingIdentifier", calls |-> << >>]
     ELSE IF f.err # NoErr
       THEN [coll |-> coll, err |-> f.err, calls |-> << >>]
     ELSE IF r.err # NoErr /\ i # 0
       THEN [coll |-> [coll EXCEPT ![i].payload = f.model.payload], err |-> r.err,
             calls |-> <<"UpdateOne", "ReplaceOne">>]
     ELSE [coll |-> r.coll, err |-> r.err, calls |-> <<"ReplaceOne">>]

\* Client.Update
UpdateOp(coll, o, flt) ==
  LET f == FromContract(o)
      r == ReplaceOne(coll, f.model.oid, f.model, "ReplaceOne" \in flt)
  IN IF MissingId(o.ID)
       THEN [coll |-> coll, err |-> "MissingIdentifier", calls |-> << >>]
     ELSE IF f.err # NoErr
       THEN [coll |-> coll, err |-> f.err, calls |-> << >>]
     ELSE [coll |-> r.coll, err |-> r.err, calls |-> <<"ReplaceOne">>]

\* UpdateRetryCount that goes on to the store after a failed decoding.
UpdateRetryCountOp_DecodeIgnored(coll, id, count, flt) ==
  LET d == FromContractId(id)
      r == UpdateOne(coll, d.objID, count, "UpdateOne" \in flt)
  IN IF MissingId(id)
       THEN [coll |-> coll, err |-> "MissingIdentifier", calls |-> << >>]
     ELSE [coll |-> r.coll, err |-> r.err, calls |-> <<"UpdateOne">>]

\* Client.UpdateRetryCount
UpdateRetryCountOp(coll, id, count, flt) ==
  LET d == FromContractId(id)
      r == UpdateOne(coll, d.objID, count, "UpdateOne" \in flt)
  IN IF MissingId(id)
       THEN [coll |-> coll, err |-> "MissingIdentifier", calls |-> << >>]
     ELSE IF d.err # NoErr
       THEN [coll |-> coll, err |-> d.err, calls |-> << >>]
     ELSE [coll |-> r.coll, err |-> r.err, calls |-> <<"UpdateOne">>]

\* RemoveFromStore that reports a delete of no document as an error.
RemoveFromStoreOp_NotFound(coll, id, flt) ==
  LET d == FromContractId(id)
      r == DeleteOne(coll, d.objID, "DeleteOne" \in flt)
  IN IF MissingId(id)
       THEN [coll |-> coll, err |-> "MissingIdentifier", calls |-> << >>, deleted |-> 0]
     ELSE IF d.err # NoErr
       THEN [coll |-> coll, err |-> d.err, calls |-> << >>, deleted |-> 0]
     ELSE IF r.err = NoErr /\ r.deleted = 0
       THEN [coll |-> coll, err |-> "NotFound", calls |-> <<"DeleteOne">>, deleted |-> 0]
     ELSE [coll |-> r.coll, err |-> r.err, calls |-> <<"DeleteOne">>, deleted |-> r.deleted]

\* RemoveFromStore that deletes by the zero ObjectID.
RemoveFromStoreOp_WrongFilter(coll, id, flt) ==
  LET d == FromContractId(id)
      r == DeleteOne(coll, NilObjectID, "DeleteOne" \in flt)
  IN IF MissingId(id)
       THEN [coll |-> coll, err |-> "MissingIdentifier", calls |-> << >>, deleted |-> 0]
     ELSE IF d.err # NoErr
       THEN [coll |-> coll, err |-> d.err, calls |-> << >>, deleted |-> 0]
     ELSE [coll |-> r.coll, err |-> r.err, calls |-> <<"DeleteOne">>, deleted |-> r.deleted]

\* Client.RemoveFromStore
RemoveFromStoreOp(coll, id, flt) ==
  LET d == FromContractId(id)
      r == DeleteOne(coll, d.objID, "DeleteOne" \in flt)
  IN IF MissingId(id)
       THEN [coll |-> coll, err |-> "MissingIdentifier", calls |-> << >>, deleted |-> 0]
     ELSE IF d.err # NoErr
       THEN [coll |-> coll, err |-> d.err, calls |-> << >>, deleted |-> 0]
     ELSE [coll |-> r.coll, err |-> r.err, calls |-> <<"DeleteOne">>, deleted |-> r.deleted]

\* ---- Connection bootstrap (NewClient) ------------------------------------
\* db.Configuration as NewClient reads it; Host, Port and DatabaseName are
\* fixed, Timeout is in milliseconds.
Configurations ==
  [Host : {"localhost"}, Port : {"27017"}, DatabaseName : {"application-service"},
   Username : {"", "user"}, Password : {"", "pass"}, Timeout : 0..MaxTimeout]

\* The connection URI, as the sequence of the pieces fmt.Sprintf joins.
Uri(config) ==
  IF config.Username = "" /\ config.Password = ""
    THEN <<"mongodb://", config.Host, ":", config.Port>>
    ELSE <<"mongodb://", config.Username, ":", config.Password, "@", config.Host, ":",
           config.Port>>

\* time.Duration(config.Timeout) * time.Millisecond, in milliseconds.
TimeoutOf(config) == config.Timeout

NoConn == [uri |-> << >>]
NoDatabase == [name |-> "", conn |-> NoConn]
NoClient == [Timeout |-> 0, Client |-> NoDatabase, client |-> NoConn]

\* mongo.Connect(ctx, options.Client().ApplyURI(uri)) when it succeeds, and
\* mongoClient.Database(name).
Connected(uri) == [uri |-> uri]
Database(conn, name) == [name |-> name, conn |-> conn]

\* A Client built without the configured timeout.
ReadyClient_NoTimeout(timeout, db, conn) ==
  [Timeout |-> 0, Client |-> db, client |-> conn]

\* The value of the return statement of the notify branch.
ReadyClient(timeout, mongoDatabase, mongoClient) ==
  [Timeout |-> timeout, Client |-> mongoDatabase, client |-> mongoClient]

\* context.WithTimeout(parent, timeout): a deadline that is not in the future
\* yields a context that is done from the start.
WithTimeout(timeout) == IF timeout <= 0 THEN "DeadlineExceeded" ELSE NoErr

\* cancel(): the first of deadline and cancel decides ctx.Err().
Cancel(ctxErrNow) == IF ctxErrNow = NoErr THEN "Canceled" ELSE ctxErrNow

\* ---- State ---------------------------------------------------------------
\* collection  the documents of the "store" collection, in natural order
\* nextOid     the ObjectID the driver generates next: the ObjectIDs below it
\*             are those the store has assigned
\* last        the Client call that has just returned: its arguments, what
\*             it returned, the store calls it made and the collection it
\*             started from; NoCall between calls
\* inflight    for each caller, the Store call it has in progress: where the
\*             call is ("idle", "lookup", "insert", "done"), its argument and,
\*             once done, what it returned
VARIABLES collection, nextOid, last, inflight

\* config      the argument of NewClient
\* pcMain      where NewClient is: "start", "select", "errBranch" (it took
\*             <-ctx.Done() and found err set), "timeoutBranch" (it took
\*             <-ctx.Done() and found err nil), "epilogue" (the results are
\*             assigned, the deferred cancel and the return are to come),
\*             "returned"
\* pcTask      where the goroutine is: "idle", "connect", "checkConnect",
\*             "ping", "checkPing", "database", "send", "done"
\* ctxErr      ctx.Err(): NoErr while the context is live
\* remaining   milliseconds left until the deadline of ctx
\* err, client the named results of NewClient; the goroutine writes err too
\* mongoClient, mongoDatabase   the variables the goroutine fills in
\* result      what the caller of NewClient received
\* branch      the case the select took: "none", "done" or "notify"
\* recorded    the error the goroutine had recorded when the select took
\*             <-ctx.Done()
VARIABLES config, pcMain, pcTask, ctxErr, remaining, err, client, mongoClient,
          mongoDatabase, result, branch, recorded

storeVars == <<collection, nextOid, last, inflight>>
bootVars == <<config, pcMain, pcTask, ctxErr, remaining, err, client, mongoClient,
              mongoDatabase, result, branch, recorded>>
vars == <<collection, nextOid, last, inflight, config, pcMain, pcTask, ctxErr, remaining, err,
          client, mongoClient, mongoDatabase, result, branch, recorded>>

NoObject ==
  [ID |-> << >>, AppServiceKey |-> "", Payload |-> "", RetryCount |-> 0, Version |-> ""]

NoCall ==
  [op |-> "none", obj |-> NoObject, id |-> << >>, count |-> 0, key |-> "",
   err |-> NoErr, ret |-> << >>, objects |-> << >>, calls |-> << >>,
   pre |-> << >>, flt |-> {}]

NoResult == [client |-> NoClient, err |-> NoErr]

Idle == [pc |-> "idle", obj |-> NoObject, err |-> NoErr, ret |-> << >>]

InitStore ==
  /\ collection = << >>
  /\ nextOid = 1
  /\ last = NoCall
  /\ inflight = [c \in Callers |-> Idle]

\* NewClient has returned a Client: the state in which the Client operations
\* are called.
ReadyConfig ==
  [Host |-> "localhost", Port |-> "27017", DatabaseName |-> "application-service",
   Username |-> "", Password |-> "", Timeout |-> MaxTimeout]

InitReady ==
  LET conn == Connected(Uri(ReadyConfig))
      c == ReadyClient(TimeoutOf(ReadyConfig), Database(conn, ReadyConfig.DatabaseName), conn)
  IN /\ config = ReadyConfig
     /\ pcMain = "returned"
     /\ pcTask = "done"
     /\ ctxErr = "Canceled"
     /\ remaining = MaxTimeout
     /\ err = NoErr
     /\ client = c
     /\ mongoClient = conn
     /\ mongoDatabase = Database(conn, ReadyConfig.DatabaseName)
     /\ result = [client |-> c, err |-> NoErr]
     /\ branch = "notify"
     /\ recorded = NoErr

Init == InitStore /\ InitReady

\* A caller that passes an ObjectID to Store restores an identifier that the
\* store assigned earlier; the driver has ObjectIDs left up to MaxOid.
Store(o, flt) ==
  LET r == StoreOp(collection, nextOid, o, flt)
  IN /\ last = NoCall
     /\ FromContractId(o.ID).objID < nextOid
     /\ r.next <= MaxOid + 1
     /\ collection' = r.coll
     /\ nextOid' = r.next
     /\ last' = [NoCall EXCEPT !.op = "Store", !.obj = o, !.err = r.err, !.ret = r.ret,
                               !.calls = r.calls, !.pre = collection, !.flt = flt]
     /\ UNCHANGED inflight
     /\ UNCHANGED bootVars

Retrieve(appServiceKey, fault, at) ==
  LET r == RetrieveFromStore(collection, appServiceKey, fault, at)
  IN /\ last = NoCall
     /\ last' = [NoCall EXCEPT !.op = "RetrieveFromStore", !.key = appServiceKey,
                               !.err = r.err, !.objects = r.objects, !.calls = r.calls,
                               !.pre = collection, !.flt = {fault} \ {"none"}]
     /\ UNCHANGED <<collection, nextOid, inflight>>
     /\ UNCHANGED bootVars

Update(o, flt) ==
  LET r == UpdateOp(collection, o, flt)
  IN /\ last = NoCall
     /\ collection' = r.coll
     /\ last' = [NoCall EXCEPT !.op = "Update", !.obj = o, !.err = r.err,
                               !.calls = r.calls, !.pre = collection, !.flt = flt]
     /\ UNCHANGED <<nextOid, inflight>>
     /\ UNCHANGED bootVars

UpdateRetryCount(id, count, flt) ==
  LET r == UpdateRetryCountOp(collection, id, count, flt)
  IN /\ last = NoCall
     /\ collection' = r.coll
     /\ last' = [NoCall EXCEPT !.op = "UpdateRetryCount", !.id = id, !.count = count,
                               !.err = r.err, !.calls = r.calls, !.pre = collection,
                               !.flt = flt]
     /\ UNCHANGED <<nextOid, inflight>>
     /\ UNCHANGED bootVars

RemoveFromStore(id, flt) ==
  LET r == RemoveFromStoreOp(collection, id, flt)
  IN /\ last = NoCall
     /\ collection' = r.coll
     /\ last' = [NoCall EXCEPT !.op = "RemoveFromStore", !.id = id, !.err = r.err,
                               !.calls = r.calls, !.pre = collection, !.flt = flt]
     /\ UNCHANGED <<nextOid, inflight>>
     /\ UNCHANGED bootVars

\* The call has returned and its caller has taken the result: the Client
\* keeps nothing of a call but what it wrote to the collection.
Return ==
  /\ last # NoCall
  /\ last' = NoCall
  /\ UNCHANGED <<collection, nextOid, inflight>>
  /\ UNCHANGED bootVars

Next ==
  \/ \E o \in ContractObjects, flt \in SUBSET {"FindOne", "InsertOne"} : Store(o, flt)
  \/ \E k \in Keys, fault \in {"none", "Find", "Decode", "Next"}, at \in 1..MaxOid :
       Retrieve(k, fault, at)
  \/ \E o \in ContractObjects, flt \in SUBSET {"ReplaceOne"} : Update(o, flt)
  \/ \E id \in IdStrings, n \in Counts, flt \in SUBSET {"UpdateOne"} :
       UpdateRetryCount(id, n, flt)
  \/ \E id \in IdStrings, flt \in SUBSET {"DeleteOne"} : RemoveFromStore(id, flt)
  \/ Return

Spec == Init /\ [][Next]_vars

\* ---- Concurrent Store calls (specification SpecConc) ----------------------
\* The callers run Store on the one Client at the same time; the backing
\* store takes one call at a time and answers every call.  A Store call is
\* the steps between which another caller's store call can fall: the
\* decoding, the lookup by UUID, the insert, the return.

\* objID, uuid, err := models.FromContractId(o.ID) and the branch on objID
StoreCall(c, o) ==
  LET d == FromContractId(o.ID)
  IN /\ inflight[c].pc = "idle"
     /\ d.objID < nextOid
     /\ inflight' =
          [inflight EXCEPT ![c] =
             IF d.err # NoErr THEN [pc |-> "done", obj |-> o, err |-> d.err, ret |-> << >>]
             ELSE IF d.objID = NilObjectID
               THEN [pc |-> "lookup", obj |-> o, err |-> NoErr, ret |-> << >>]
             ELSE [pc |-> "insert", obj |-> o, err |-> NoErr, ret |-> << >>]]
     /\ UNCHANGED <<collection, nextOid, last>>
     /\ UNCHANGED bootVars

\* FindOne by uuid, Decode, and the test for an existing object
StoreLookup(c) ==
  LET d == FromContractId(inflight[c].obj.ID)
      m == FindOne(collection, d.uuid, FALSE)
  IN /\ inflight[c].pc = "lookup"
     /\ inflight' =
          [inflight EXCEPT ![c] =
             IF ObjectExists(m)
               THEN [@ EXCEPT !.pc = "done", !.err = "DuplicateObject"]
               ELSE [@ EXCEPT !.pc = "insert"]]
     /\ UNCHANGED <<collection, nextOid, last>>
     /\ UNCHANGED bootVars

\* InsertOne(ctx, doc) and the return of its error or of the inserted id
StoreInsert(c) ==
  LET o == inflight[c].obj
      d == FromContractId(o.ID)
      doc == [oid |-> d.objID, uuid |-> d.uuid, appServiceKey |-> o.AppServiceKey,
              payload |-> o.Payload, retryCount |-> o.RetryCount, version |-> o.Version]
      ins == InsertOne(collection, nextOid, doc, FALSE)
  IN /\ inflight[c].pc = "insert"
     /\ ins.next <= MaxOid + 1
     /\ collection' = ins.coll
     /\ nextOid' = ins.next
     /\ inflight' =
          [inflight EXCEPT ![c] =
             IF ins.err # NoErr
               THEN [@ EXCEPT !.pc = "done", !.err = ins.err]
               ELSE [@ EXCEPT !.pc = "done", !.ret = Hex(ins.id)]]
     /\ UNCHANGED last
     /\ UNCHANGED bootVars

\* The caller has taken the result of its Store call.
StoreReturn(c) ==
  /\ inflight[c].pc = "done"
  /\ inflight' = [inflight EXCEPT ![c] = Idle]
  /\ UNCHANGED <<collection, nextOid, last>>
  /\ UNCHANGED bootVars

NextConc ==
  \/ \E c \in Callers, o \in ContractObjects : StoreCall(c, o)
  \/ \E c \in Callers : StoreLookup(c)
  \/ \E c \in Callers : StoreInsert(c)
  \/ \E c \in Callers : StoreReturn(c)

SpecConc == Init /\ [][NextConc]_vars

\* ---- NewClient -------------------------------------------------------------
InitBoot ==
  /\ InitStore
  /\ config \in Configurations
  /\ pcMain = "start"
  /\ pcTask = "idle"
  /\ ctxErr = NoErr
  /\ remaining = 0
  /\ err = NoErr
  /\ client = NoClient
  /\ mongoClient = NoConn
  /\ mongoDatabase = NoDatabase
  /\ result = NoResult
  /\ branch = "none"
  /\ recorded = NoErr

\* NewClient up to the select: the URI, the context with its deadline, the
\* notify channel and the go statement.
NewClientStart ==
  /\ pcMain = "start"
  /\ ctxErr' = WithTimeout(TimeoutOf(config))
  /\ remaining' = TimeoutOf(config)
  /\ pcTask' = "connect"
  /\ pcMain' = "select"
  /\ UNCHANGED <<config, err, client, mongoClient, mongoDatabase, result, branch, recorded>>
  /\ UNCHANGED storeVars

\* A millisecond passes; the timer of ctx fires when none is left.
Tick ==
  /\ pcMain # "start"
  /\ ctxErr = NoErr
  /\ remaining > 0
  /\ remaining' = remaining - 1
  /\ ctxErr' = IF remaining = 1 THEN "DeadlineExceeded" ELSE NoErr
  /\ UNCHANGED <<config, pcMain, pcTask, err, client, mongoClient, mongoDatabase, result,
                 branch, recorded>>
  /\ UNCHANGED storeVars

\* mongoClient, err = mongo.Connect(ctx, ...)
TaskConnect(ok) ==
  /\ pcTask = "connect"
  /\ mongoClient' = IF ok THEN Connected(Uri(config)) ELSE NoConn
  /\ err' = IF ok THEN NoErr ELSE "ConnectError"
  /\ pcTask' = "checkConnect"
  /\ UNCHANGED <<config, pcMain, ctxErr, remaining, client, mongoDatabase, result, branch,
                 recorded>>
  /\ UNCHANGED storeVars

\* if err != nil { cancel(); return }, after Connect and after Ping
TaskCheck(at, onward) ==
  /\ pcTask = at
  /\ IF err # NoErr
       THEN ctxErr' = Cancel(ctxErr) /\ pcTask' = "done"
       ELSE ctxErr' = ctxErr /\ pcTask' = onward
  /\ UNCHANGED <<config, pcMain, remaining, err, client, mongoClient, mongoDatabase, result,
                 branch, recorded>>
  /\ UNCHANGED storeVars

\* err = mongoClient.Ping(ctx, nil)
TaskPing(ok) ==
  /\ pcTask = "ping"
  /\ err' = IF ok THEN NoErr ELSE "PingError"
  /\ pcTask' = "checkPing"
  /\ UNCHANGED <<config, pcMain, ctxErr, remaining, client, mongoClient, mongoDatabase,
                 result, branch, recorded>>
  /\ UNCHANGED storeVars

\* mongoDatabase = mongoClient.Database(config.DatabaseName)
TaskDatabase ==
  /\ pcTask = "database"
  /\ mongoDatabase' = Database(mongoClient, config.DatabaseName)
  /\ pcTask' = "send"
  /\ UNCHANGED <<config, pcMain, ctxErr, remaining, err, client, mongoClient, result, branch,
                 recorded>>
  /\ UNCHANGED storeVars

\* case <-ctx.Done(): if err != nil.  The read of err is not ordered with the
\* goroutine's writes: it sees what the interleaving has put there.
SelectDone ==
  /\ pcMain = "select"
  /\ ctxErr # NoErr
  /\ branch' = "done"
  /\ recorded' = err
  /\ pcMain' = IF err # NoErr THEN "errBranch" ELSE "timeoutBranch"
  /\ UNCHANGED <<config, pcTask, ctxErr, remaining, err, client, mongoClient, mongoDatabase,
                 result>>
  /\ UNCHANGED storeVars

\* return nil, err
ReturnErr ==
  /\ pcMain = "errBranch"
  /\ client' = NoClient
  /\ err' = err
  /\ pcMain' = "epilogue"
  /\ UNCHANGED <<config, pcTask, ctxErr, remaining, mongoClient, mongoDatabase, result,
                 branch, recorded>>
  /\ UNCHANGED storeVars

\* return nil, ctx.Err()
ReturnTimeout ==
  /\ pcMain = "timeoutBranch"
  /\ client' = NoClient
  /\ err' = ctxErr
  /\ pcMain' = "epilogue"
  /\ UNCHANGED <<config, pcTask, ctxErr, remaining, mongoClient, mongoDatabase, result,
                 branch, recorded>>
  /\ UNCHANGED storeVars

\* case <-notify, with the goroutine's notify <- true:
\* return Client{timeout, mongoDatabase, mongoClient}, nil
SelectNotify ==
  /\ pcMain = "select"
  /\ pcTask = "send"
  /\ pcTask' = "done"
  /\ branch' = "notify"
  /\ client' = ReadyClient(TimeoutOf(config), mongoDatabase, mongoClient)
  /\ err' = NoErr
  /\ pcMain' = "epilogue"
  /\ UNCHANGED <<config, ctxErr, remaining, mongoClient, mongoDatabase, result, recorded>>
  /\ UNCHANGED storeVars

\* The deferred cancel() runs and the results go to the caller: err, which
\* the goroutine's closure shares, is read when the function returns.
Epilogue ==
  /\ pcMain = "epilogue"
  /\ ctxErr' = Cancel(ctxErr)
  /\ result' = [client |-> client, err |-> err]
  /\ pcMain' = "returned"
  /\ UNCHANGED <<config, pcTask, remaining, err, client, mongoClient, mongoDatabase, branch,
                 recorded>>
  /\ UNCHANGED storeVars

NextBoot ==
  \/ NewClientStart
  \/ Tick
  \/ \E ok \in BOOLEAN : TaskConnect(ok)
  \/ TaskCheck("checkConnect", "ping")
  \/ \E ok \in BOOLEAN : TaskPing(ok)
  \/ TaskCheck("checkPing", "database")
  \/ TaskDatabase
  \/ SelectDone
  \/ ReturnErr
  \/ ReturnTimeout
  \/ SelectNotify
  \/ Epilogue

SpecBoot == InitBoot /\ [][NextBoot]_vars

\* NewClient's own goroutine is scheduled whenever it can run, and time
\* passes: the timer of ctx fires.  Nothing is assumed of the goroutine that
\* connects: mongo.Connect and Ping may take for ever.
SpecBootLive ==
  /\ SpecBoot
  /\ WF_vars(NewClientStart)
  /\ WF_vars(Tick)
  /\ WF_vars(SelectDone)
  /\ WF_vars(ReturnErr)
  /\ WF_vars(ReturnTimeout)
  /\ WF_vars(SelectNotify)
  /\ WF_vars(Epilogue)

\* The connecting goroutine is scheduled whenever it can run too, and
\* mongo.Connect and Ping return.
SpecBootFair ==
  /\ SpecBootLive
  /\ WF_vars(\E ok \in BOOLEAN : TaskConnect(ok))
  /\ WF_vars(TaskCheck("checkConnect", "ping"))
  /\ WF_vars(\E ok \in BOOLEAN : TaskPing(ok))
  /\ WF_vars(TaskCheck("checkPing", "database"))
  /\ WF_vars(TaskDatabase)

\* ---- Properties of the Client operations (specification Spec) -------------
\* What the identifier of the latest call decodes to.
LastId == IF last.op \in {"Store", "Update"} THEN last.obj.ID ELSE last.id
LastDecoded == FromContractId(LastId)

\* The positions of coll whose document carries the UUID (the ObjectID).
WithUuid(coll, uuid) == {i \in 1..Len(coll) : coll[i].uuid = uuid}
WithOid(coll, oid) == {i \in 1..Len(coll) : coll[i].oid = oid}

\* The latest call had a well-formed, non-empty identifier and the backing
\* store answered every call.
WellFormedCall ==
  /\ LastId # << >>
  /\ LastDecoded.err = NoErr
  /\ last.flt = {}

\* C1: a Store with a correlation UUID and no ObjectID, answered by the
\* backing store, succeeds with a non-empty id and leaves exactly one document
\* of that UUID when the collection held none of it (the first call), and
\* fails with DuplicateObject, inserting nothing, when the collection holds
\* one (the second call).
C1_StoreTwiceSameUuid ==
  (/\ last.op = "Store"
   /\ WellFormedCall
   /\ LastDecoded.objID = NilObjectID
   /\ LastDecoded.uuid # NoUuid)
  => IF WithUuid(last.pre, LastDecoded.uuid) = {}
       THEN /\ last.err = NoErr
            /\ last.ret # << >>
            /\ Len(collection) = Len(last.pre) + 1
            /\ Cardinality(WithUuid(collection, LastDecoded.uuid)) = 1
       ELSE /\ last.err = "DuplicateObject"
            /\ "InsertOne" \notin {last.calls[i] : i \in 1..Len(last.calls)}
            /\ collection = last.pre

\* The second of two Store calls with the same UUID was rejected and the
\* collection holds the one document of the first.
C1_Witness ==
  /\ last.op = "Store"
  /\ last.err = "DuplicateObject"
  /\ LastDecoded.uuid = "u1"
  /\ Cardinality(WithUuid(collection, "u1")) = 1
  /\ Len(collection) = 1

\* C2: a successful Store of an object with no ObjectID adds one document and
\* the id it returns decodes to the (ObjectID, UUID) pair of that document.
C2_StoreReturnsCompositeId ==
  (/\ last.op = "Store"
   /\ last.err = NoErr
   /\ LastDecoded.objID = NilObjectID)
  => /\ Len(collection) = Len(last.pre) + 1
     /\ \A i \in 1..Len(last.pre) : collection[i] = last.pre[i]
     /\ LET doc == collection[Len(collection)]
        IN FromContractId(last.ret) =
             [objID |-> doc.oid, uuid |-> doc.uuid, err |-> NoErr]

\* C3: Update of an object with an empty ID, and UpdateRetryCount and
\* RemoveFromStore with an empty id, return MissingIdentifier, call the
\* backing store not once and leave the collection as it was.
C3_EmptyIdRejected ==
  (/\ last.op \in {"Update", "UpdateRetryCount", "RemoveFromStore"}
   /\ LastId = << >>)
  => /\ last.err = "MissingIdentifier"
     /\ last.calls = << >>
     /\ collection = last.pre

C3_Witness ==
  /\ last.op = "Update"
  /\ last.obj.ID = << >>
  /\ last.err = "MissingIdentifier"
  /\ Len(collection) > 0

\* C4: an Update whose well-formed ID matches no document returns an error
\* and leaves the collection as it was.
C4_UpdateNoMatchFails ==
  (/\ last.op = "Update"
   /\ WellFormedCall
   /\ WithOid(last.pre, LastDecoded.objID) = {})
  => /\ last.err # NoErr
     /\ collection = last.pre

\* C5: a successful UpdateRetryCount(id, count) on an existing document sets
\* its retryCount to count, keeps every other field of it, keeps every other
\* document and the number of documents, and a RetrieveFromStore for its
\* AppServiceKey then returns it with the new RetryCount and its Payload.
C5_UpdateRetryCountFrame ==
  (/\ last.op = "UpdateRetryCount"
   /\ last.err = NoErr
   /\ LastId # << >>
   /\ WithOid(last.pre, LastDecoded.objID) # {})
  => /\ Len(collection) = Len(last.pre)
     /\ \A i \in 1..Len(last.pre) :
          LET old == last.pre[i]
              new == collection[i]
          IN /\ new.oid = old.oid
             /\ new.uuid = old.uuid
             /\ new.appServiceKey = old.appServiceKey
             /\ new.payload = old.payload
             /\ new.version = old.version
             /\ new.retryCount =
                  IF old.oid = LastDecoded.objID THEN last.count ELSE old.retryCount
             /\ old.oid = LastDecoded.objID =>
                  LET got == RetrieveFromStore(collection, old.appServiceKey, "none", 1)
                  IN /\ got.err = NoErr
                     /\ \E j \in 1..Len(got.objects) :
                          /\ got.objects[j].ID = ToContractId(old.oid, old.uuid)
                          /\ got.objects[j].RetryCount = last.count
                          /\ got.objects[j].Payload = old.payload

\* The retry count of one of two documents was changed.
C5_Witness ==
  /\ last.op = "UpdateRetryCount"
  /\ last.err = NoErr
  /\ Len(last.pre) = 2
  /\ \E i \in WithOid(last.pre, LastDecoded.objID) :
       last.pre[i].retryCount # last.count /\ collection[i].retryCount = last.count

\* C6: UpdateRetryCount and RemoveFromStore with a well-formed id that
\* matches no document return no error and leave the collection as it was.
C6_NoMatchIsSuccess ==
  (/\ last.op \in {"UpdateRetryCount", "RemoveFromStore"}
   /\ WellFormedCall
   /\ WithOid(last.pre, LastDecoded.objID) = {})
  => /\ last.err = NoErr
     /\ collection = last.pre

C6_Witness ==
  /\ last.op = "RemoveFromStore"
  /\ WellFormedCall
  /\ LastDecoded.objID # NilObjectID
  /\ WithOid(last.pre, LastDecoded.objID) = {}
  /\ Len(last.pre) > 0
  /\ last.err = NoErr

\* The ObjectIDs that a RetrieveFromStore for the key returns.
RetrievedOids(coll, key) ==
  LET got == RetrieveFromStore(coll, key, "none", 1)
  IN {FromContractId(got.objects[j].ID).objID : j \in 1..Len(got.objects)}

\* The ObjectIDs whose documents have been removed: the store assigned them
\* and no document carries them; a document leaves the collection through a
\* successful RemoveFromStore only.
RemovedOids(coll, next) == {o \in Oids : o < next} \ OidsOf(coll)

\* C7 as stated: the ObjectID of a removed document appears in no later
\* retrieval: once removed, it stays out of the collection.
C7_RemovedNeverReturns ==
  [][\A o \in RemovedOids(collection, nextOid), k \in Keys :
       o \notin RetrievedOids(collection', k)]_vars

\* A successful RemoveFromStore of an existing document takes that document,
\* and no other, out of the collection and out of every retrieval.
RemoveTakesOut ==
  (/\ last.op = "RemoveFromStore"
   /\ last.err = NoErr
   /\ LastId # << >>
   /\ WithOid(last.pre, LastDecoded.objID) # {})
  => /\ Len(collection) = Len(last.pre) - 1
     /\ \A k \in Keys : LastDecoded.objID \notin RetrievedOids(collection, k)
     /\ \A i \in 1..Len(last.pre) :
          last.pre[i].oid # LastDecoded.objID =>
            \E j \in 1..Len(collection) : collection[j] = last.pre[i]
     /\ \A j \in 1..Len(collection) :
          \E i \in 1..Len(last.pre) : collection[j] = last.pre[i]

\* The ObjectID of a removed document comes back only with a Store call that
\* carries that ObjectID.
RemovedUntilRestored ==
  \A o \in RemovedOids(collection, nextOid) :
    o \in OidsOf(collection') =>
      /\ last'.op = "Store"
      /\ last'.err = NoErr
      /\ FromContractId(last'.obj.ID).objID = o

\* C7, amended: after a successful RemoveFromStore(id) the removed document's
\* ObjectID appears in no retrieval until a Store call that carries that
\* ObjectID inserts it again, and the removal changes no other document.
C7_RemovedUntilRestored == [](RemoveTakesOut) /\ [][RemovedUntilRestored]_vars

\* One of two documents was removed; the other is still there.
C7_Witness ==
  /\ last.op = "RemoveFromStore"
  /\ last.err = NoErr
  /\ Len(last.pre) = 2
  /\ Len(collection) = 1
  /\ LastDecoded.objID \in OidsOf(last.pre) \ OidsOf(collection)

\* C8: a successful RetrieveFromStore(appServiceKey) returns each document of
\* the collection with that AppServiceKey once and nothing else, an empty
\* sequence when there is none, and does not modify the collection.
C8_RetrieveExact ==
  (/\ last.op = "RetrieveFromStore"
   /\ last.err = NoErr)
  => LET match == {i \in 1..Len(collection) : collection[i].appServiceKey = last.key}
     IN /\ collection = last.pre
        /\ Len(last.objects) = Cardinality(match)
        /\ \A i \in match :
             \E j \in 1..Len(last.objects) :
               /\ last.objects[j].ID = ToContractId(collection[i].oid, collection[i].uuid)
               /\ last.objects[j].AppServiceKey = collection[i].appServiceKey
               /\ last.objects[j].Payload = collection[i].payload
               /\ last.objects[j].RetryCount = collection[i].retryCount
               /\ last.objects[j].Version = collection[i].version
        /\ \A j \in 1..Len(last.objects) : last.objects[j].AppServiceKey = last.key
        /\ (match = {} => last.objects = << >>)

\* One of two documents was retrieved; the other has another AppServiceKey.
C8_Witness ==
  /\ last.op = "RetrieveFromStore"
  /\ last.err = NoErr
  /\ Len(collection) = 2
  /\ Len(last.objects) = 1

\* C12: when the identifier given to Store, Update, UpdateRetryCount or
\* RemoveFromStore does not decode, the call returns the decode error, calls
\* the backing store not once and leaves the collection as it was.
C12_DecodeFailureShortCircuits ==
  (/\ last.op \in {"Store", "Update", "UpdateRetryCount", "RemoveFromStore"}
   /\ LastDecoded.err # NoErr)
  => /\ last.err = LastDecoded.err
     /\ last.calls = << >>
     /\ collection = last.pre

\* A Store with a malformed identifier was turned down on a collection that
\* holds a document.
C12_Witness ==
  /\ last.op = "Store"
  /\ last.obj.ID = BadId
  /\ last.err = "MalformedIdentifier"
  /\ "InsertOne" \in last.flt
  /\ Len(collection) > 0

\* C13: a store call that fails during a Client operation is the last store
\* call of that operation, and the operation returns its error; for
\* RetrieveFromStore this holds of the find call, of every cursor.Decode and
\* of every cursor.Next that can fail on the collection.
C13_StoreFailureReturned ==
  /\ \A i \in 1..Len(last.calls) :
       last.calls[i] \in last.flt =>
         /\ i = Len(last.calls)
         /\ last.err = "StoreUnavailable"
  /\ \A k \in Keys, at \in 1..(Len(collection) + 1) :
       LET n == Len(Find(collection, k))
       IN /\ at <= n => RetrieveFromStore(collection, k, "Decode", at).err = "DecodeError"
          /\ at <= n + 1 =>
               RetrieveFromStore(collection, k, "Next", at).err = "StoreUnavailable"

\* C14: a call that returns an error leaves the collection as it was, and
\* after an Update every document is, field for field, either the document it
\* was or the document built from the argument.
C14_FailedCallLeavesCollection ==
  /\ (last.op # "none" /\ last.err # NoErr) => collection = last.pre
  /\ last.op = "Update" =>
       /\ Len(collection) = Len(last.pre)
       /\ \A i \in 1..Len(last.pre) :
            \/ collection[i] = last.pre[i]
            \/ /\ last.err = NoErr
               /\ collection[i] = FromContract(last.obj).model

\* An Update of an existing document to other field values failed at the
\* backing store.
C14_Witness ==
  /\ last.op = "Update"
  /\ last.err = "StoreUnavailable"
  /\ last.calls = <<"ReplaceOne">>
  /\ \E i \in WithOid(last.pre, LastDecoded.objID) :
       /\ last.pre[i].payload # last.obj.Payload
       /\ collection[i] = last.pre[i]

\* C15: a RetrieveFromStore that returns an error returns no objects, and
\* every failure of the find call, of a cursor.Decode or of a cursor.Next
\* makes it return an error and no objects, however many documents were read
\* before.
C15_RetrieveAllOrNothing ==
  /\ (last.op = "RetrieveFromStore" /\ last.err # NoErr) =>
       /\ last.objects = << >>
       /\ collection = last.pre
  /\ \A k \in Keys, at \in 1..(Len(collection) + 1) :
       LET n == Len(Find(collection, k))
           f == RetrieveFromStore(collection, k, "Find", at)
           d == RetrieveFromStore(collection, k, "Decode", at)
           x == RetrieveFromStore(collection, k, "Next", at)
       IN /\ f.err # NoErr /\ f.objects = << >>
          /\ at <= n => (d.err # NoErr /\ d.objects = << >>)
          /\ at <= n + 1 => (x.err # NoErr /\ x.objects = << >>)

\* A RetrieveFromStore over two matching documents failed at a decoding; the
\* decoding of the second document, after the first was read, fails it too.
C15_Witness ==
  /\ last.op = "RetrieveFromStore"
  /\ last.err = "DecodeError"
  /\ last.objects = << >>
  /\ Len(Find(collection, last.key)) = 2
  /\ RetrieveFromStore(collection, last.key, "Decode", 2).err = "DecodeError"

\* C16: every document of the collection has an ObjectID, no two documents
\* have the same, and a Store that carries the ObjectID of a document in the
\* collection fails and adds nothing.
C16_UniqueOpaqueIds ==
  /\ \A i \in 1..Len(collection) : collection[i].oid # NilObjectID
  /\ \A i, j \in 1..Len(collection) : collection[i].oid = collection[j].oid => i = j
  /\ (/\ last.op = "Store"
      /\ LastDecoded.err = NoErr
      /\ LastDecoded.objID # NilObjectID
      /\ WithOid(last.pre, LastDecoded.objID) # {})
     => /\ last.err # NoErr
        /\ collection = last.pre

\* A Store carrying the ObjectID of a document in the collection was turned
\* down by the backing store.
C16_Witness ==
  /\ last.op = "Store"
  /\ last.flt = {}
  /\ LastDecoded.objID # NilObjectID
  /\ WithOid(last.pre, LastDecoded.objID) # {}
  /\ last.err = "DuplicateKey"
  /\ Len(collection) = 2

\* C17: a successful Update of an existing document puts the document built
\* from the argument, under the same ObjectID, in the place of the document
\* with the decoded ObjectID, and keeps every other document and the number
\* of documents.
C17_UpdateReplacesWhole ==
  (/\ last.op = "Update"
   /\ last.err = NoErr
   /\ WithOid(last.pre, LastDecoded.objID) # {})
  => /\ Len(collection) = Len(last.pre)
     /\ \A i \in 1..Len(last.pre) :
          IF last.pre[i].oid = LastDecoded.objID
            THEN collection[i] =
                   [oid |-> last.pre[i].oid, uuid |-> LastDecoded.uuid,
                    appServiceKey |-> last.obj.AppServiceKey,
                    payload |-> last.obj.Payload,
                    retryCount |-> last.obj.RetryCount, version |-> last.obj.Version]
            ELSE collection[i] = last.pre[i]

\* One of two documents was replaced by a document that differs from it in
\* every field an object carries.
C17_Witness ==
  /\ last.op = "Update"
  /\ last.err = NoErr
  /\ Len(last.pre) = 2
  /\ \E i \in WithOid(last.pre, LastDecoded.objID) :
       /\ last.pre[i].appServiceKey # last.obj.AppServiceKey
       /\ last.pre[i].payload # last.obj.Payload
       /\ last.pre[i].retryCount # last.obj.RetryCount
       /\ collection[i].payload = last.obj.Payload

\* ---- Properties of concurrent Store calls (specification SpecConc) --------
\* The callers whose Store call carries the UUID and no ObjectID and has
\* returned without error.
Succeeded(uuid) ==
  {c \in Callers :
     /\ inflight[c].pc = "done"
     /\ inflight[c].err = NoErr
     /\ FromContractId(inflight[c].obj.ID).objID = NilObjectID
     /\ FromContractId(inflight[c].obj.ID).uuid = uuid}

\* C18: under every interleaving of the callers' Store calls, the collection
\* holds at most one document of a correlation UUID, and of the calls that
\* carry one UUID and no ObjectID at most one has returned without error.
C18_OneStorePerUuid ==
  \A u \in Uuids :
    /\ Cardinality(WithUuid(collection, u)) <= 1
    /\ Cardinality(Succeeded(u)) <= 1

\* C9: when NewClient leaves through <-ctx.Done(), it returns no client and
\* an error: the error the goroutine had recorded when the select took the
\* case if there is one, and otherwise the timeout error of the context (or
\* the connect or ping error that the goroutine recorded in the meantime).
C9_DoneReturnsRecordedOrTimeout ==
  (pcMain = "returned" /\ branch = "done")
  => /\ result.client = NoClient
     /\ IF recorded # NoErr
          THEN result.err = recorded
          ELSE result.err \in {"DeadlineExceeded", "ConnectError", "PingError"}

C19_ClientXorError ==
  pcMain = "returned"
  => /\ (result.client = NoClient) # (result.err = NoErr)
     /\ result.client # NoClient =>
          /\ branch = "notify"
          /\ pcTask = "done"
          /\ result.client.client = Connected(Uri(config))
          /\ result.client.Client = Database(Connected(Uri(config)), config.DatabaseName)

\* ---- Progress of NewClient (specifications SpecBootLive, SpecBootFair) ------
\* NewClient returns, whatever the goroutine does.
NewClientReturns == <>(pcMain = "returned")

\* The select has taken <-ctx.Done() on the deadline while mongo.Connect had
\* not returned: the deadline is shorter than the connect latency.
DeadlineBeatConnect ==
  /\ pcMain = "timeoutBranch"
  /\ pcTask = "connect"
  /\ ctxErr = "DeadlineExceeded"

\* What NewClient returned is no client and the timeout error, or the error
\* that the goroutine recorded since.
ReturnedTimeoutOrTaskError ==
  pcMain = "returned"
  => /\ result.client = NoClient
     /\ result.err \in {"DeadlineExceeded", "ConnectError", "PingError"}

\* C11: NewClient returns in every execution, also when mongo.Connect never
\* returns, and when the deadline is shorter than the connect latency it
\* returns no client and the timeout error or the goroutine's error.
C11_ReturnsErrorByDeadline ==
  /\ NewClientReturns
  /\ [](DeadlineBeatConnect => []ReturnedTimeoutOrTaskError)

\* C20: the goroutine of NewClient terminates in every execution.
C20_TaskTerminates == <>(pcTask = "done")

====
